---- MODULE Spec2Model ----
(***************************************************************************)
(* Model of src/dedup.py: the perceptual-hash duplicate finder.            *)
(*                                                                         *)
(* A file is a name and its bytes.  The bytes are abstracted by what the   *)
(* decoders read out of them: whether the file decodes at all, width,      *)
(* height, the frames (each with its four perceptual hashes and its        *)
(* duration), the size in bytes, and whether seeking or iterating frames   *)
(* fails.  A hash is the set of the positions (0..63) of its one-bits, so  *)
(* that imagehash's distance (the Hamming distance) is the size of the     *)
(* symmetric difference.  Indices are 1-based here and 0-based in Python.  *)
(***************************************************************************)
EXTENDS Integers, Sequences, FiniteSets, TLC

VARIABLES files, threshold, dry_run, disk, pc, k, images, i, j, parent,
          last, groups, g, kept, report, total_removed, result

vars == <<files, threshold, dry_run, disk, pc, k, images, i, j, parent,
          last, groups, g, kept, report, total_removed, result>>

(***************************************************************************)
(* Bounds of the model.                                                    *)
(***************************************************************************)
MaxFiles == 3
MaxThreshold == 1
MaxFrames == 2

(***************************************************************************)
(* Program constants.                                                      *)
(***************************************************************************)
MIN_HASH_AGREEMENT == 4
\* MAX_SIZE_DIFF_RATIO = 0.02, kept exact as the fraction 2/100
MAX_SIZE_DIFF_NUM == 2
MAX_SIZE_DIFF_DEN == 100
\* imagehash's default hash_size 8 gives 64-bit hashes, printed as 16 hex digits
HEX_DIGITS == 16

None == [none |-> TRUE]

Abs(x) == IF x < 0 THEN -x ELSE x
Max2(x, y) == IF x >= y THEN x ELSE y

RECURSIVE SumSeq(_)
SumSeq(s) == IF s = <<>> THEN 0 ELSE Head(s) + SumSeq(Tail(s))

Range(s) == {s[x] : x \in DOMAIN s}

(***************************************************************************)
(* imagehash.ImageHash: __sub__ is the Hamming distance, __str__ the hex   *)
(* digits of the bits, most significant first.                             *)
(***************************************************************************)
HashDistance(a, b) == Cardinality((a \ b) \cup (b \ a))

HashStr(h) ==
  [d \in 1..HEX_DIGITS |->
     (IF 4 * (d - 1) \in h THEN 8 ELSE 0) + (IF 4 * (d - 1) + 1 \in h THEN 4 ELSE 0)
     + (IF 4 * (d - 1) + 2 \in h THEN 2 ELSE 0) + (IF 4 * (d - 1) + 3 \in h THEN 1 ELSE 0)]

zero_hash == [d \in 1..HEX_DIGITS |-> 0]

(***************************************************************************)
(* ImageInfo                                                               *)
(***************************************************************************)
\* a zero count that three hashes can never exceed
HasDegenerateHashNever(info) ==
  LET hs == <<HashStr(info.phash), HashStr(info.ahash), HashStr(info.dhash)>>
      zero_count == Cardinality({x \in 1..3 : hs[x] = zero_hash})
  IN  zero_count > 3

HasDegenerateHash(info) ==
  LET hs == <<HashStr(info.phash), HashStr(info.ahash), HashStr(info.dhash)>>
      zero_count == Cardinality({x \in 1..3 : hs[x] = zero_hash})
  IN  zero_count >= 3

\* a static branch with the frequency bound off by one
StaticCandidateStrict(phash_dist, ahash_dist, dhash_dist, chash_dist, total_distance) ==
  IF ahash_dist = 0 /\ dhash_dist = 0 /\ chash_dist = 0 /\ phash_dist < 10
    THEN TRUE
    ELSE total_distance = 0

\* the static branch of is_candidate (frame count 1)
StaticCandidate(phash_dist, ahash_dist, dhash_dist, chash_dist, total_distance) ==
  IF ahash_dist = 0 /\ dhash_dist = 0 /\ chash_dist = 0 /\ phash_dist <= 10
    THEN TRUE
    ELSE total_distance = 0

\* an animated branch that asks for more agreements than there are hashes
AnimatedCandidateOver(agreements) == agreements > MIN_HASH_AGREEMENT

\* the animated branch of is_candidate
AnimatedCandidate(agreements) == agreements >= MIN_HASH_AGREEMENT

\* a gate that needs both dimensions to differ
DimensionMismatchBoth(self, other) ==
  self.width # other.width /\ self.height # other.height

\* a gate that looks at the width alone
DimensionMismatchWidth(self, other) == self.width # other.width

\* "Dimensions must match exactly"
DimensionMismatch(self, other) ==
  self.width # other.width \/ self.height # other.height

\* (is_candidate, agreements, total_distance)
IsCandidate(self, other, t) ==
  IF DimensionMismatch(self, other)
    THEN <<FALSE, 0, 999>>
  ELSE IF self.n_frames # other.n_frames
    THEN <<FALSE, 0, 999>>
  ELSE
    LET distances == <<HashDistance(self.phash, other.phash),
                       HashDistance(self.ahash, other.ahash),
                       HashDistance(self.dhash, other.dhash),
                       HashDistance(self.colorhash, other.colorhash)>>
        total_distance == SumSeq(distances)
        agreements == Cardinality({x \in 1..4 : distances[x] <= t})
    IN  IF self.n_frames = 1
          THEN <<StaticCandidate(distances[1], distances[2], distances[3],
                                 distances[4], total_distance),
                 agreements, total_distance>>
          ELSE <<AnimatedCandidate(agreements), agreements, total_distance>>

IsAnimated(info) == info.n_frames > 1

(***************************************************************************)
(* UnionFind: parent is a dict, a function whose domain grows on find.     *)
(***************************************************************************)
RECURSIVE FindRoot(_, _)
FindRoot(p, x) == IF p[x] = x THEN x ELSE FindRoot(p, p[x])

RECURSIVE FindPath(_, _)
FindPath(p, x) == IF p[x] = x THEN {} ELSE {x} \cup FindPath(p, p[x])

\* the parent dict after find(x): x is entered on first access, and every
\* node on the way to the root is re-pointed at the root
UfFind(p, x) ==
  LET p1 == IF x \in DOMAIN p THEN p ELSE p @@ (x :> x)
      r == FindRoot(p1, x)
      path == FindPath(p1, x)
  IN  [n \in DOMAIN p1 |-> IF n \in path THEN r ELSE p1[n]]

\* a union that re-points x itself instead of x's root
UfUnionNoRoot(p, x, y) ==
  LET p1 == UfFind(p, x)
      px == FindRoot(p1, x)
      p2 == UfFind(p1, y)
      py == FindRoot(p2, y)
  IN  IF px # py THEN [p2 EXCEPT ![x] = py] ELSE p2

UfUnion(p, x, y) ==
  LET p1 == UfFind(p, x)
      px == FindRoot(p1, x)
      p2 == UfFind(p1, y)
      py == FindRoot(p2, y)
  IN  IF px # py THEN [p2 EXCEPT ![px] = py] ELSE p2

(***************************************************************************)
(* Files                                                                   *)
(***************************************************************************)
\* hashlib.md5 of the bytes: equal for equal bytes, different otherwise
ComputeMd5(bytes) == bytes

GetGifFrameInfo(bytes) ==
  IF ~bytes.ok \/ bytes.ferr THEN None
  ELSE IF Len(bytes.frames) <= 1 THEN None
  ELSE [frame_info |-> [x \in 1..Len(bytes.frames) |->
          <<HashStr(bytes.frames[x].ph), bytes.frames[x].dur>>]]

\* a comparison of the frame hashes alone, the durations left out
GifsAreIdenticalNoTiming(bytes1, bytes2) ==
  LET info1 == GetGifFrameInfo(bytes1)
      info2 == GetGifFrameInfo(bytes2)
  IN  IF info1 = None \/ info2 = None
        THEN ComputeMd5(bytes1) = ComputeMd5(bytes2)
      ELSE IF Len(info1.frame_info) # Len(info2.frame_info) THEN FALSE
      ELSE \A x \in 1..Len(info1.frame_info) :
             info1.frame_info[x][1] = info2.frame_info[x][1]

GifsAreIdentical(bytes1, bytes2) ==
  LET info1 == GetGifFrameInfo(bytes1)
      info2 == GetGifFrameInfo(bytes2)
  IN  IF info1 = None \/ info2 = None
        THEN ComputeMd5(bytes1) = ComputeMd5(bytes2)
      ELSE IF Len(info1.frame_info) # Len(info2.frame_info) THEN FALSE
      ELSE info1.frame_info = info2.frame_info

\* a fingerprinter that hands out a descriptor for an undecodable file too
ComputeImageInfoUnchecked(bytes) ==
  LET n_frames == Len(bytes.frames)
      is_animated == n_frames > 1
      middle_frame == n_frames \div 2
      fr == IF ~is_animated THEN bytes.frames[1]
            ELSE IF ~bytes.eof THEN bytes.frames[middle_frame + 1]
            ELSE bytes.frames[1]
  IN  [phash |-> fr.ph, ahash |-> fr.ah, dhash |-> fr.dh, colorhash |-> fr.ch,
       width |-> bytes.w, height |-> bytes.h, n_frames |-> n_frames,
       md5 |-> ComputeMd5(bytes)]

ComputeImageInfo(bytes) ==
  IF ~bytes.ok THEN None
  ELSE
    LET n_frames == Len(bytes.frames)
        is_animated == n_frames > 1
        middle_frame == n_frames \div 2
        fr == IF ~is_animated THEN bytes.frames[1]
              ELSE IF ~bytes.eof THEN bytes.frames[middle_frame + 1]
              ELSE bytes.frames[1]
    IN  [phash |-> fr.ph, ahash |-> fr.ah, dhash |-> fr.dh, colorhash |-> fr.ch,
         width |-> bytes.w, height |-> bytes.h, n_frames |-> n_frames,
         md5 |-> ComputeMd5(bytes)]

\* a size check with the 5% of the constant's comment
FilesSizeSimilarLoose(bytes1, bytes2) ==
  LET size1 == bytes1.size
      size2 == bytes2.size
  IN  IF size1 = 0 \/ size2 = 0 THEN size1 = size2
      ELSE Abs(size1 - size2) * 100 <= 5 * Max2(size1, size2)

\* abs(size1 - size2) / max(size1, size2) <= 0.02, in exact arithmetic
FilesSizeSimilar(bytes1, bytes2) ==
  LET size1 == bytes1.size
      size2 == bytes2.size
  IN  IF size1 = 0 \/ size2 = 0 THEN size1 = size2
      ELSE Abs(size1 - size2) * MAX_SIZE_DIFF_DEN <= MAX_SIZE_DIFF_NUM * Max2(size1, size2)

VerifyDuplicatePair(bytes_i, info_i, bytes_j, info_j, t) ==
  IF IsAnimated(info_i) /\ IsAnimated(info_j)
    THEN GifsAreIdentical(bytes_i, bytes_j)
    ELSE TRUE

(***************************************************************************)
(* File names: Path.name as the sequence of its character codes.           *)
(***************************************************************************)
\* str.lower() on ASCII
Lower(name) == [x \in DOMAIN name |-> IF name[x] \in 65..90 THEN name[x] + 32 ELSE name[x]]

\* Python's str <=: by code point, a proper prefix first
RECURSIVE StrLeq(_, _)
StrLeq(a, b) ==
  IF a = <<>> THEN TRUE
  ELSE IF b = <<>> THEN FALSE
  ELSE IF Head(a) # Head(b) THEN Head(a) < Head(b)
  ELSE StrLeq(Tail(a), Tail(b))

\* a sort key that keeps the case
SortKeyCased(name) == name

\* the key of deduplicate's sort
SortKey(name) == Lower(name)

FileName(f) == files[f].name
FileBytes(f) == files[f].bytes
InfoOf(f) == ComputeImageInfo(files[f].bytes)

\* sorted(group, key=...): stable, so equal keys keep the order of the group
RECURSIVE InsertSorted(_, _)
InsertSorted(s, e) ==
  IF s = <<>> THEN <<e>>
  ELSE IF StrLeq(SortKey(FileName(Head(s))), SortKey(FileName(e)))
    THEN <<Head(s)>> \o InsertSorted(Tail(s), e)
    ELSE <<e>> \o s

RECURSIVE SortedGroup(_)
SortedGroup(group) ==
  IF group = <<>> THEN <<>>
  ELSE InsertSorted(SortedGroup(SubSeq(group, 1, Len(group) - 1)), group[Len(group)])

(***************************************************************************)
(* The inputs.  Hash values: no bit set, ten bits set, eleven bits set     *)
(* (distances 0, 1, 10 and 11 from one another), and a single bit.         *)
(***************************************************************************)
Z == {}
P10 == 0..9
P11 == 0..10
A1 == {0}

\* "Zeta.png", "apple.png", "Banana.png", "Apple.png", "zeta.png"
NamePool == << <<90, 101, 116, 97, 46, 112, 110, 103>>,
               <<97, 112, 112, 108, 101, 46, 112, 110, 103>>,
               <<66, 97, 110, 97, 110, 97, 46, 112, 110, 103>>,
               <<65, 112, 112, 108, 101, 46, 112, 110, 103>>,
               <<122, 101, 116, 97, 46, 112, 110, 103>> >>

Bytes(ok, w, h, frames, size, eof, ferr) ==
  [ok |-> ok, w |-> w, h |-> h, frames |-> frames, size |-> size, eof |-> eof,
   ferr |-> ferr]

Frame(ph, ah, dh, ch, dur) == [ph |-> ph, ah |-> ah, dh |-> dh, ch |-> ch, dur |-> dur]

\* the lists of n files, named in the order of NamePool, with bytes from D
FileLists(n, D) ==
  {[x \in 1..n |-> [name |-> NamePool[x], bytes |-> bs[x]]] : bs \in [1..n -> D]}

\* an animation of MaxFrames frames whose first frame differs from the others
AnimFrames(first_ph, last_dur) ==
  [x \in 1..MaxFrames |->
     Frame(IF x = 1 THEN first_ph ELSE P10, A1, Z, A1,
           IF x = MaxFrames THEN last_dur ELSE 10)]

\* the whole pipeline: static files on a chain of frequency-hash distances
\* (0, 10 and 11 bits), a degenerate one, an undecodable one, and animations
MainStatic ==
  {Bytes(TRUE, 16, 16, <<Frame(p, A1, Z, A1, 0)>>, 100, FALSE, FALSE) :
     p \in {Z, P10, P11}}
  \cup {Bytes(TRUE, 16, 16, <<Frame(Z, Z, Z, A1, 0)>>, 100, FALSE, FALSE)}

MainBroken == {Bytes(FALSE, 16, 16, <<Frame(P10, A1, Z, A1, 0)>>, 100, FALSE, FALSE)}

\* an animation, the same with its last frame re-timed, and the same with a
\* failing seek to the middle frame
MainAnimated ==
  {Bytes(TRUE, 16, 16, AnimFrames(P11, d), 100, FALSE, FALSE) : d \in {10, 20}}
  \cup {Bytes(TRUE, 16, 16, AnimFrames(P11, 10), 100, TRUE, FALSE)}

MainBytes == MainStatic \cup MainBroken \cup MainAnimated

MainLists == UNION {FileLists(n, MainBytes) : n \in 0..MaxFiles}

\* pairs of descriptors for is_candidate: every combination of dimensions,
\* frame count and the four hashes
Dims == {<<16, 16>>, <<32, 16>>, <<16, 32>>}

JudgeFrames == {Frame(p, a, d, c, 10) : p \in {Z, P10, P11}, a \in {Z, A1},
                                        d \in {Z, A1}, c \in {Z, A1}}

JudgeBytes ==
  {Bytes(TRUE, dm[1], dm[2], [x \in 1..n |-> f], 100, FALSE, FALSE) :
     dm \in Dims, n \in 1..MaxFrames, f \in JudgeFrames}

JudgeLists == FileLists(2, JudgeBytes)

\* pairs of animations: a base animation with at most one frame changed (its
\* hash, its duration or both), of three sizes, with or without a failure of
\* the frame iteration; and static files of the three sizes
OneFrameChanged ==
  {[x \in 1..MaxFrames |->
      IF x = m THEN Frame(p, A1, Z, A1, d) ELSE Frame(P10, A1, Z, A1, 10)] :
     m \in 1..MaxFrames, p \in {P10, P11}, d \in {10, 20}}

Sizes == {100, 102, 103}

AnimBytes ==
  {Bytes(TRUE, 16, 16, fs, sz, FALSE, fe) :
     fs \in OneFrameChanged, sz \in Sizes, fe \in BOOLEAN}
  \cup {Bytes(TRUE, 16, 16, <<Frame(p, A1, Z, A1, 0)>>, sz, FALSE, FALSE) :
          p \in {P10, P11}, sz \in Sizes}

AnimLists == FileLists(2, AnimBytes)

\* groups over files of several shapes: the static chain of frequency-hash
\* distances in two heights, and an animation in two widths
ShapeBytes ==
  {Bytes(TRUE, 16, h, <<Frame(p, A1, Z, A1, 0)>>, 100, FALSE, FALSE) :
     h \in {16, 32}, p \in {Z, P10, P11}}
  \cup {Bytes(TRUE, w, 16, AnimFrames(P11, 10), 100, FALSE, FALSE) : w \in {16, 32}}

ShapeLists == FileLists(MaxFiles, ShapeBytes)

(***************************************************************************)
(* find_similar_groups                                                     *)
(***************************************************************************)
NoPair == [i |-> 0, j |-> 0, cand |-> <<FALSE, 0, 0>>, sized |-> FALSE,
           framecmp |-> FALSE, unioned |-> FALSE]

InitFrom(lists) ==
  /\ files \in lists
  /\ threshold \in -1..MaxThreshold
  /\ dry_run = FALSE
  /\ disk = DOMAIN files
  /\ pc = "scan"
  /\ k = 1
  /\ images = <<>>
  /\ i = 0
  /\ j = 0
  /\ parent = <<>>
  /\ last = NoPair
  /\ groups = <<>>
  /\ g = 0
  /\ kept = <<>>
  /\ report = <<>>
  /\ total_removed = 0
  /\ result = <<>>

\* one pass of the loop over files: fingerprint, drop undecodable and degenerate
ComputeStep ==
  /\ pc = "scan"
  /\ k <= Len(files)
  /\ LET info == ComputeImageInfo(FileBytes(k))
     IN  images' = IF info # None
                     THEN IF ~HasDegenerateHash(info) THEN Append(images, k) ELSE images
                     ELSE images
  /\ k' = k + 1
  /\ UNCHANGED <<files, threshold, dry_run, disk, pc, i, j, parent, last, groups,
                 g, kept, report, total_removed, result>>

\* "if not images: return []", else the union-find is created
ScanDone ==
  /\ pc = "scan"
  /\ k > Len(files)
  /\ IF images = <<>>
       THEN pc' = "main" /\ i' = i
       ELSE pc' = "outer" /\ i' = 1
  /\ UNCHANGED <<files, threshold, dry_run, disk, k, images, j, parent, last, groups,
                 g, kept, report, total_removed, result>>

\* the head of the outer loop: uf.find(i), or the loop's end
OuterStep ==
  /\ pc = "outer"
  /\ IF i <= Len(images)
       THEN /\ parent' = UfFind(parent, i)
            /\ j' = i + 1
            /\ pc' = "inner"
       ELSE /\ pc' = "cluster"
            /\ UNCHANGED <<parent, j>>
  /\ UNCHANGED <<files, threshold, dry_run, disk, k, images, i, last, groups,
                 g, kept, report, total_removed, result>>

\* what the inner loop's body does with the pair (i, j)
PairOutcome(p, ii, jj) ==
  LET path_i == images[ii]
      path_j == images[jj]
      info_i == InfoOf(path_i)
      info_j == InfoOf(path_j)
      cand == IsCandidate(info_i, info_j, threshold)
      sized == cand[1] /\ IsAnimated(info_i)
      similar == FilesSizeSimilar(FileBytes(path_i), FileBytes(path_j))
      verified == cand[1] /\ (sized => similar)
      framecmp == verified /\ IsAnimated(info_i) /\ IsAnimated(info_j)
      unioned == verified /\ VerifyDuplicatePair(FileBytes(path_i), info_i,
                                                 FileBytes(path_j), info_j, threshold)
  IN  [parent |-> IF unioned THEN UfUnion(p, ii, jj) ELSE p,
       last |-> [i |-> ii, j |-> jj, cand |-> cand, sized |-> sized,
                 framecmp |-> framecmp, unioned |-> unioned]]

\* one pass of the inner loop, or its end
InnerStep ==
  /\ pc = "inner"
  /\ IF j <= Len(images)
       THEN LET out == PairOutcome(parent, i, j)
            IN  /\ parent' = out.parent
                /\ last' = out.last
                /\ j' = j + 1
                /\ UNCHANGED <<i, pc>>
       ELSE /\ i' = i + 1
            /\ pc' = "outer"
            /\ UNCHANGED <<parent, last, j>>
  /\ UNCHANGED <<files, threshold, dry_run, disk, k, images, groups,
                 g, kept, report, total_removed, result>>

RECURSIVE FindAll(_, _, _)
FindAll(p, x, n) == IF x > n THEN p ELSE FindAll(UfFind(p, x), x + 1, n)

\* the clusters dict, in insertion order, and the groups of more than one member
ClusterGroups(p, imgs) ==
  LET n == Len(imgs)
      idx == [x \in 1..n |-> x]
      IsFirst(x) == \A y \in 1..(x - 1) : FindRoot(p, y) # FindRoot(p, x)
      firsts == SelectSeq(idx, IsFirst)
      Members(f) == LET Same(x) == FindRoot(p, x) = FindRoot(p, f)
                    IN  SelectSeq(idx, Same)
      clusters == [c \in 1..Len(firsts) |->
                     [m \in 1..Len(Members(firsts[c])) |-> imgs[Members(firsts[c])[m]]]]
      Big(group) == Len(group) > 1
  IN  SelectSeq(clusters, Big)

Cluster ==
  /\ pc = "cluster"
  /\ parent' = FindAll(parent, 1, Len(images))
  /\ groups' = ClusterGroups(parent', images)
  /\ pc' = "main"
  /\ UNCHANGED <<files, threshold, dry_run, disk, k, images, i, j, last,
                 g, kept, report, total_removed, result>>

(***************************************************************************)
(* main and deduplicate                                                    *)
(***************************************************************************)
\* "if not groups: return", else deduplicate(groups, args.dry_run, args.threshold)
Main ==
  /\ pc = "main"
  /\ IF groups = <<>>
       THEN pc' = "done" /\ UNCHANGED <<dry_run, g>>
       ELSE /\ dry_run' \in BOOLEAN
            /\ g' = 1
            /\ pc' = "dedup"
  /\ UNCHANGED <<files, threshold, disk, k, images, i, j, parent, last, groups,
                 kept, report, total_removed, result>>

\* an unlink that ignores dry_run
UnlinkedAlways(remove, dry) == Range(remove)

\* the paths of a group that are unlinked: "if not dry_run: path.unlink()"
Unlinked(remove, dry) == IF ~dry THEN Range(remove) ELSE {}

\* one pass of the loop over groups
DedupGroup ==
  /\ pc = "dedup"
  /\ g <= Len(groups)
  /\ LET sorted_group == SortedGroup(groups[g])
         keep_path == Head(sorted_group)
         remove == Tail(sorted_group)
         agreements_info == [x \in 1..Len(remove) |->
                               IsCandidate(InfoOf(keep_path), InfoOf(remove[x]), threshold)]
     IN  /\ kept' = Append(kept, keep_path)
         /\ report' = report \o
                        [x \in 1..Len(remove) |->
                           [group |-> g, keep |-> keep_path, path |-> remove[x],
                            action |-> IF dry_run THEN "WOULD DELETE" ELSE "DELETE",
                            agreements |-> agreements_info[x][2],
                            dist |-> agreements_info[x][3]]]
         /\ disk' = disk \ Unlinked(remove, dry_run)
         /\ total_removed' = total_removed + Cardinality(Unlinked(remove, dry_run))
  /\ g' = g + 1
  /\ UNCHANGED <<files, threshold, dry_run, k, images, i, j, parent, last, groups,
                 pc, result>>

DedupReturn ==
  /\ pc = "dedup"
  /\ g > Len(groups)
  /\ result' = IF dry_run
                 THEN <<Len(groups), SumSeq([x \in 1..Len(groups) |-> Len(groups[x]) - 1])>>
                 ELSE <<Len(groups), total_removed>>
  /\ pc' = "done"
  /\ UNCHANGED <<files, threshold, dry_run, disk, k, images, i, j, parent, last,
                 groups, g, kept, report, total_removed>>

Next ==
  \/ ComputeStep
  \/ ScanDone
  \/ OuterStep
  \/ InnerStep
  \/ Cluster
  \/ Main
  \/ DedupGroup
  \/ DedupReturn

Init == InitFrom(MainLists)
Spec == Init /\ [][Next]_vars

InitJudge == InitFrom(JudgeLists)
SpecJudge == InitJudge /\ [][Next]_vars

InitAnim == InitFrom(AnimLists)
SpecAnim == InitAnim /\ [][Next]_vars

InitShape == InitFrom(ShapeLists)
SpecShape == InitShape /\ [][Next]_vars

(***************************************************************************)
(* What the claims speak of.                                               *)
(***************************************************************************)
\* find_similar_groups has returned
Returned == pc \in {"main", "dedup", "done"}

\* find_similar_groups has just returned; groups never changes after
AtReturn == pc = "main"

GroupSets == {Range(groups[x]) : x \in DOMAIN groups}

InSameGroup(a, b) == \E x \in DOMAIN groups : {a, b} \subseteq Range(groups[x])

InAGroup(f) == \E x \in DOMAIN groups : f \in Range(groups[x])

Fingerprinted(f) == ComputeImageInfo(FileBytes(f)) # None

\* the pair of files a and b, a before b in the input, is confirmed
ConfirmedPair(a, b) ==
  LET info_a == InfoOf(a)
      info_b == InfoOf(b)
  IN  /\ IsCandidate(info_a, info_b, threshold)[1]
      /\ IsAnimated(info_a) => FilesSizeSimilar(FileBytes(a), FileBytes(b))
      /\ VerifyDuplicatePair(FileBytes(a), info_a, FileBytes(b), info_b, threshold)

Edge(a, b) == IF a < b THEN ConfirmedPair(a, b) ELSE IF b < a THEN ConfirmedPair(b, a) ELSE FALSE

\* the nodes of the graph among the files S
NodesOf(S) == {f \in S : Fingerprinted(f) /\ ~HasDegenerateHash(InfoOf(f))}

\* the files reachable from those of C along the edges E
RECURSIVE Component(_, _)
Component(E, C) ==
  LET D == C \cup {e[2] : e \in {d \in E : d[1] \in C}}
  IN  IF D = C THEN C ELSE Component(E, D)

\* the connected components of two or more files
ComponentsOf(S) ==
  LET N == NodesOf(S)
      E == {e \in N \X N : Edge(e[1], e[2])}
  IN  {c \in {Component(E, {n}) : n \in N} : Cardinality(c) >= 2}

\* at the entry of find_similar_groups; files and threshold never change after
AtEntry == pc = "scan" /\ k = 1

\* the pair the inner loop compared last
LastI == InfoOf(images[last.i])
LastJ == InfoOf(images[last.j])
LastBytesI == FileBytes(images[last.i])
LastBytesJ == FileBytes(images[last.j])
Compared == last.i # 0

\* the number of bit positions at which two hashes differ
Dist(a, b) == Cardinality(a \cup b) - Cardinality(a \cap b)

(***************************************************************************)
(* C1: the groups find_similar_groups returns are exactly the connected    *)
(* components, of two or more files, of the graph of confirmed pairs over  *)
(* the fingerprinted, non-degenerate files; they are pairwise disjoint,    *)
(* hold no file twice, and none is a singleton.                            *)
(***************************************************************************)
C1_GroupsAreComponents ==
  AtReturn =>
    /\ GroupSets = ComponentsOf(DOMAIN files)
    /\ \A x \in DOMAIN groups : Len(groups[x]) >= 2
    /\ \A x \in DOMAIN groups : Cardinality(Range(groups[x])) = Len(groups[x])
    /\ \A x, y \in DOMAIN groups : x # y => Range(groups[x]) \cap Range(groups[y]) = {}

\* A-B and B-C are confirmed, A-C is not, and the three share a group
C1_Witness ==
  /\ Returned
  /\ \E a, b, c \in NodesOf(DOMAIN files) :
       /\ Edge(a, b) /\ Edge(b, c) /\ a # c /\ ~Edge(a, c)
       /\ InSameGroup(a, b) /\ InSameGroup(b, c)

(***************************************************************************)
(* C2: descriptors that differ in width, height or frame count are never   *)
(* candidates: is_candidate gives (False, 0, 999) at every threshold,      *)
(* whatever the hash distances, and find_similar_groups does not union     *)
(* the pair.                                                               *)
(***************************************************************************)
Mismatched(a, b) ==
  a.width # b.width \/ a.height # b.height \/ a.n_frames # b.n_frames

C2_DimensionGate ==
  /\ AtEntry =>
       \A a, b \in DOMAIN files :
         (Fingerprinted(a) /\ Fingerprinted(b) /\ Mismatched(InfoOf(a), InfoOf(b))) =>
           \A t \in -1..MaxThreshold :
             IsCandidate(InfoOf(a), InfoOf(b), t) = <<FALSE, 0, 999>>
  /\ (Compared /\ Mismatched(LastI, LastJ)) =>
       /\ last.cand = <<FALSE, 0, 999>>
       /\ ~last.unioned
       /\ ~last.framecmp

\* a pair of different width and four equal hashes was compared and rejected
C2_Witness ==
  /\ Compared
  /\ LastI.width # LastJ.width
  /\ LastI.height = LastJ.height /\ LastI.n_frames = LastJ.n_frames
  /\ LastI.phash = LastJ.phash /\ LastI.ahash = LastJ.ahash
  /\ LastI.dhash = LastJ.dhash /\ LastI.colorhash = LastJ.colorhash
  /\ last.cand = <<FALSE, 0, 999>>
  /\ ~last.unioned

(***************************************************************************)
(* C3: two static descriptors of equal width and height are candidates     *)
(* exactly when the average, gradient and color distances are 0 and the    *)
(* frequency distance is at most 10, or all four distances are 0; the      *)
(* verdict does not depend on the threshold, and a static candidate is     *)
(* confirmed at once.                                                      *)
(***************************************************************************)
StaticRule(a, b) ==
  \/ /\ Dist(a.ahash, b.ahash) = 0 /\ Dist(a.dhash, b.dhash) = 0
     /\ Dist(a.colorhash, b.colorhash) = 0 /\ Dist(a.phash, b.phash) <= 10
  \/ /\ Dist(a.phash, b.phash) = 0 /\ Dist(a.ahash, b.ahash) = 0
     /\ Dist(a.dhash, b.dhash) = 0 /\ Dist(a.colorhash, b.colorhash) = 0

StaticPair(a, b) ==
  a.n_frames = 1 /\ b.n_frames = 1 /\ a.width = b.width /\ a.height = b.height

C3_StaticRule ==
  /\ AtEntry =>
       \A a, b \in DOMAIN files :
         (Fingerprinted(a) /\ Fingerprinted(b) /\ StaticPair(InfoOf(a), InfoOf(b))) =>
           \A t \in -1..MaxThreshold :
             IsCandidate(InfoOf(a), InfoOf(b), t)[1] = StaticRule(InfoOf(a), InfoOf(b))
  /\ (Compared /\ StaticPair(LastI, LastJ)) =>
       /\ last.cand[1] = StaticRule(LastI, LastJ)
       /\ last.unioned = last.cand[1]

\* a static pair at frequency distance 11, the other three at 0, was rejected
\* although every distance but one is within the threshold
C3_Witness ==
  /\ Compared
  /\ StaticPair(LastI, LastJ)
  /\ Dist(LastI.phash, LastJ.phash) = 11
  /\ Dist(LastI.ahash, LastJ.ahash) = 0 /\ Dist(LastI.dhash, LastJ.dhash) = 0
  /\ Dist(LastI.colorhash, LastJ.colorhash) = 0
  /\ ~last.cand[1]
  /\ ~last.unioned

(***************************************************************************)
(* C4: once the frame comparison runs on an animated candidate pair, the   *)
(* pair is confirmed exactly when both files yield a per-frame record and  *)
(* the records agree frame by frame in hash and in duration, or one of     *)
(* them yields no record and the two files have the same content digest.   *)
(***************************************************************************)
YieldsRecord(b) == b.ok /\ ~b.ferr /\ Len(b.frames) > 1

SameFrames(b1, b2) ==
  /\ Len(b1.frames) = Len(b2.frames)
  /\ \A x \in 1..Len(b1.frames) :
       b1.frames[x].ph = b2.frames[x].ph /\ b1.frames[x].dur = b2.frames[x].dur

FrameRule(b1, b2) ==
  IF YieldsRecord(b1) /\ YieldsRecord(b2) THEN SameFrames(b1, b2) ELSE b1 = b2

AnimatedPair(a, b) ==
  a.width = b.width /\ a.height = b.height /\ a.n_frames = b.n_frames /\ a.n_frames > 1

AllWithin(a, b, t) ==
  /\ Dist(a.phash, b.phash) <= t /\ Dist(a.ahash, b.ahash) <= t
  /\ Dist(a.dhash, b.dhash) <= t /\ Dist(a.colorhash, b.colorhash) <= t

\* |s1 - s2| / max(s1, s2) <= 2/100, for sizes above 0
Within2Percent(s1, s2) ==
  IF s1 >= s2 THEN 100 * (s1 - s2) <= 2 * s1 ELSE 100 * (s2 - s1) <= 2 * s2

C5_AnimatedGates ==
  Compared =>
    /\ AnimatedPair(LastI, LastJ) =>
         /\ last.framecmp => /\ AllWithin(LastI, LastJ, threshold)
                             /\ last.cand[2] >= 4
                             /\ Within2Percent(LastBytesI.size, LastBytesJ.size)
         /\ last.unioned => last.framecmp
    /\ (LastI.n_frames = 1 /\ LastJ.n_frames = 1) => (~last.sized /\ ~last.framecmp)

\* an animated pair within the threshold whose sizes differ by more than 2%:
\* size-checked and skipped before any frame is decoded
C5_Witness ==
  /\ Compared
  /\ AnimatedPair(LastI, LastJ)
  /\ AllWithin(LastI, LastJ, threshold)
  /\ ~Within2Percent(LastBytesI.size, LastBytesJ.size)
  /\ SameFrames(LastBytesI, LastBytesJ)
  /\ last.sized /\ ~last.framecmp /\ ~last.unioned

(***************************************************************************)
(* C6 (as amended): a successfully fingerprinted, non-degenerate file and  *)
(* a byte-identical copy of it have total_distance 0 and end in the same   *)
(* group: at every threshold for static files, at every threshold >= 0 for *)
(* animated ones.                                                          *)
(***************************************************************************)
Copies(a, b) == a < b /\ FileBytes(a) = FileBytes(b)

C6_CopiesGrouped ==
  \A a, b \in DOMAIN files :
    (/\ Copies(a, b)
     /\ Fingerprinted(a)
     /\ ~HasDegenerateHash(InfoOf(a))
     /\ (InfoOf(a).n_frames = 1 \/ threshold >= 0)) =>
      /\ IsCandidate(InfoOf(a), InfoOf(b), threshold)[3] = 0
      /\ (Compared /\ images[last.i] = a /\ images[last.j] = b) =>
           (last.cand[1] /\ last.cand[3] = 0 /\ last.unioned)
      /\ Returned => InSameGroup(a, b)

\* an animation and its byte-identical copy share a group
C6_Witness ==
  /\ Returned
  /\ \E a, b \in DOMAIN files :
       /\ Copies(a, b) /\ Fingerprinted(a) /\ InfoOf(a).n_frames > 1
       /\ InSameGroup(a, b)

\* C6 as stated: every decodable file and its byte-identical copy share a
\* group, at every threshold >= 0
C6_Original ==
  (Returned /\ threshold >= 0) =>
    \A a, b \in DOMAIN files :
      (Copies(a, b) /\ FileBytes(a).ok) => InSameGroup(a, b)

(***************************************************************************)
(* C7 (as amended): a descriptor is degenerate exactly when its frequency, *)
(* average and gradient hashes are all the all-zero pattern, whatever the  *)
(* color hash; a degenerate descriptor is left out of the images and of    *)
(* every group, even next to a file of identical hashes.                   *)
(***************************************************************************)
ThreeStructuralZero(info) == info.phash = {} /\ info.ahash = {} /\ info.dhash = {}

ZeroCountOfFour(info) ==
  Cardinality({h \in {"p", "a", "d", "c"} :
                 (CASE h = "p" -> info.phash [] h = "a" -> info.ahash
                    [] h = "d" -> info.dhash [] OTHER -> info.colorhash) = {}})

CaseFold(name) == [x \in DOMAIN name |-> IF name[x] >= 65 /\ name[x] <= 90
                                          THEN name[x] + 32 ELSE name[x]]

\* a comes at or before b: at the first index where they differ a is smaller,
\* or a is a prefix of b
LexLeq(a, b) ==
  \/ \E n \in 1..Len(a) :
       /\ n <= Len(b)
       /\ \A m \in 1..(n - 1) : a[m] = b[m]
       /\ a[n] < b[n]
  \/ /\ Len(a) <= Len(b)
     /\ \A m \in 1..Len(a) : a[m] = b[m]

Reported(x) == {report[r].path : r \in {q \in DOMAIN report : report[q].group = x}}

C8_KeepsCaseInsensitiveMin ==
  /\ \A x \in DOMAIN kept :
       /\ kept[x] \in Range(groups[x])
       /\ \A m \in Range(groups[x]) :
            LexLeq(CaseFold(FileName(kept[x])), CaseFold(FileName(m)))
       /\ Reported(x) = Range(groups[x]) \ {kept[x]}
       /\ kept[x] \in disk
       /\ ~dry_run => Reported(x) \cap disk = {}
  /\ \A r \in DOMAIN report : report[r].path \in Range(groups[report[r].group])
  /\ Len(report) = SumSeq([x \in DOMAIN kept |-> Len(groups[x]) - 1])
  /\ \A f \in DOMAIN files : ~InAGroup(f) => f \in disk

\* "Zeta.png", "apple.png" and "Banana.png" in one group: "apple.png" is kept
C8_Witness ==
  /\ pc = "done"
  /\ ~dry_run
  /\ Len(groups) = 1
  /\ Range(groups[1]) = {1, 2, 3}
  /\ kept = <<2>>
  /\ disk = {2}

(***************************************************************************)
(* C9: a dry run unlinks nothing, and it returns the pair a live run       *)
(* returns: the number of groups and the number of files a live run        *)
(* removes.                                                                *)
(***************************************************************************)
Removable == SumSeq([x \in DOMAIN groups |-> Len(groups[x]) - 1])

C9_DryRunNoOp ==
  /\ (pc \in {"dedup", "done"} /\ dry_run) => disk = DOMAIN files
  /\ (pc = "done" /\ result # <<>>) =>
       /\ result = <<Len(groups), Removable>>
       /\ ~dry_run => result[2] = Cardinality(DOMAIN files \ disk)

\* a dry run over groups with two files to remove has returned
C9_Witness ==
  /\ pc = "done"
  /\ dry_run
  /\ result # <<>>
  /\ result[2] >= 2
  /\ disk = DOMAIN files

(***************************************************************************)
(* C10: an undecodable file gets no descriptor and is in no group; the     *)
(* pass goes on to its end; and the groups are those of the input without  *)
(* the undecodable files.                                                  *)
(***************************************************************************)
Decodable == {f \in DOMAIN files : FileBytes(f).ok}

C10_UndecodableIsLocal ==
  /\ \A f \in DOMAIN files \ Decodable :
       /\ ComputeImageInfo(FileBytes(f)) = None
       /\ f \notin Range(images)
       /\ ~InAGroup(f)
  /\ (pc = "scan" /\ k <= Len(files) /\ ~FileBytes(k).ok) => ENABLED ComputeStep
  /\ AtReturn => GroupSets = ComponentsOf(Decodable)

\* an undecodable file beside two decodable files of the very hashes the
\* undecodable one would have: the two are grouped, the pass has ended
C10_Witness ==
  /\ pc = "done"
  /\ Len(files) = 3
  /\ ~FileBytes(1).ok
  /\ FileBytes(2).ok /\ FileBytes(2).frames = FileBytes(1).frames
  /\ FileBytes(3) = FileBytes(2)
  /\ GroupSets = {{2, 3}}

(***************************************************************************)
(* C11: the members of a returned group all have the same width, height    *)
(* and frame count, also when they are linked only through other members;  *)
(* so the is_candidate that deduplicate recomputes between the kept file   *)
(* and a removed one never takes the mismatch branch, and no reported      *)
(* distance is the sentinel 999.                                           *)
(***************************************************************************)
SameShape(a, b) ==
  a.width = b.width /\ a.height = b.height /\ a.n_frames = b.n_frames

C11_GroupsShareShape ==
  /\ Returned =>
       \A x \in DOMAIN groups :
         \A a, b \in Range(groups[x]) : SameShape(InfoOf(a), InfoOf(b))
  /\ \A r \in DOMAIN report :
       /\ SameShape(InfoOf(report[r].keep), InfoOf(report[r].path))
       /\ report[r].dist # 999
       /\ <<report[r].agreements, report[r].dist>> # <<0, 999>>

\* a group of three in which the kept file and a removed one are not
\* candidates of one another (frequency distance 11), linked through the
\* third; files of another shape stay out; the distance reported is 11
C11_Witness ==
  /\ pc = "done"
  /\ \E r \in DOMAIN report :
       /\ Len(groups[report[r].group]) = 3
       /\ ~IsCandidate(InfoOf(report[r].keep), InfoOf(report[r].path), threshold)[1]
       /\ report[r].dist = 11

====
